---- MODULE Spec2Model ----
(***************************************************************************)
(* A model of the Garmin Connect FastAPI wrapper (app/main.py) and of the  *)
(* offline token generator (generate_tokens.py).                           *)
(*                                                                         *)
(* The process is modelled from module import to shutdown: the import      *)
(* reads API_KEY and ENABLE_PROMETHEUS, the lifespan runs                  *)
(* init_garmin_client step by step (each step is one blocking call to the  *)
(* filesystem or to the garminconnect library), then requests are served   *)
(* one after the other: the handlers are coroutines without an await in    *)
(* their body, so a handler's body runs to its end on the event loop.      *)
(*                                                                         *)
(* The garminconnect library, the Garmin servers and the filesystem are    *)
(* the environment: every call into them draws its outcome with \E.        *)
(***************************************************************************)
EXTENDS Integers, Sequences, FiniteSets, TLC

VARIABLES
    pc,                 \* position of the service process
    API_KEY,            \* module global, read from the environment at import
    ENABLE_PROMETHEUS,  \* module global, read from the environment at import
    garmin_client,      \* module global: the session handle, or NoClient
    tokenDir,           \* contents of the token directory on disk
    boot,               \* the run of init_garmin_client: its calls and its end
    gauges,             \* prometheus registry: gauge name -> value
    req,                \* the request being served and its response
    parked              \* a request suspended in the middleware, or Idle

vars == <<pc, API_KEY, ENABLE_PROMETHEUS, garmin_client, tokenDir, boot, gauges, req,
          parked>>

----------------------------------------------------------------------------
(* Bounds of the model.                                                    *)

\* The day date.today() answers; the day before it is Today - 1.
Today == 2
\* Step and calorie counts of a stats payload range over 0..MaxCount.
MaxCount == 1

----------------------------------------------------------------------------
(* Values.                                                                 *)

\* Python's None among the numeric fields of a payload.
None == -1
\* garmin_client = None
NoClient == "None"
\* os.getenv / headers.get answering None
Unset == "<unset>"

Yesterday == Today - 1
Days == {Yesterday, Today}

\* Python truthiness of a numeric-or-None value: None and 0 are falsy.
Truthy(v) == v # None /\ v # 0

\* Python truthiness of a string-or-None value: None and "" are falsy.
TruthyStr(s) == s # Unset /\ s # ""

\* dict.get(key) with the default None.
Get(d, k) == IF k \in DOMAIN d THEN d[k] ELSE None

\* d[key] = value
Put(d, k, v) == [x \in (DOMAIN d) \cup {k} |-> IF x = k THEN v ELSE d[x]]

----------------------------------------------------------------------------
(* Module import: lines 13-48 and 72.                                      *)

\* PUBLIC_PATHS
PUBLIC_PATHS == {"/health", "/metrics", "/docs", "/redoc", "/openapi.json"}

\* The Gauge objects defined when ENABLE_PROMETHEUS is true.
GaugeNames ==
    {"garmin_steps_today", "garmin_calories_today", "garmin_active_calories_today",
     "garmin_distance_meters", "garmin_heart_rate_resting", "garmin_heart_rate_min",
     "garmin_heart_rate_max", "garmin_stress_avg", "garmin_stress_max",
     "garmin_body_battery_current", "garmin_body_battery_charged",
     "garmin_body_battery_drained", "garmin_sleep_seconds", "garmin_sleep_score",
     "garmin_floors_climbed", "garmin_intensity_minutes", "garmin_spo2_avg",
     "garmin_respiration_avg", "garmin_weight_kg", "garmin_bmi",
     "garmin_body_fat_percentage", "garmin_connected"}

\* The registry when no Gauge is defined.
NoGauges == [g \in {} |-> 0]

\* A Gauge without labels is registered with the value 0.
NewGauges == [g \in GaugeNames |-> 0]

\* str.lower() on the values the environment may hold.
Lower(s) == CASE s = "True" -> "true"
              [] s = "TRUE" -> "true"
              [] s = "False" -> "false"
              [] OTHER -> s

\* Values of the environment variable ENABLE_PROMETHEUS.
PromEnv == {Unset, "true", "True", "TRUE", "false", "1"}

\* os.getenv("ENABLE_PROMETHEUS", "false").lower() == "true"
PrometheusEnabled(env) == Lower(IF env = Unset THEN "false" ELSE env) = "true"

\* Values of the environment variable API_KEY.
KeyEnv == {Unset, "", "secret"}

\* The record of one run of init_garmin_client.
NewBoot == [calls |-> <<>>, dir0 |-> tokenDir, end |-> "running"]

\* No request in hand.
Idle == [stage |-> "idle"]

\* The interpreter imports app.main: the globals are set from the environment.
Import ==
    /\ pc = "off"
    /\ \E key \in KeyEnv, prom \in PromEnv :
          /\ API_KEY' = key
          /\ ENABLE_PROMETHEUS' = PrometheusEnabled(prom)
          /\ gauges' = IF PrometheusEnabled(prom) THEN NewGauges ELSE NoGauges
    /\ garmin_client' = NoClient
    /\ boot' = NewBoot
    /\ req' = Idle
    /\ pc' = "init"
    /\ UNCHANGED <<parked, tokenDir>>

----------------------------------------------------------------------------
(* lifespan and init_garmin_client: lines 82-129.                          *)

\* Token directory contents that hold a complete Token Bundle.
Bundles == {"cli", "svc"}

\* os.makedirs(path, exist_ok=True) succeeding.
MadeDir(dir) == IF dir = "missing" THEN "empty" ELSE dir

\* One more call made by init_garmin_client, and how it ended.
Called(b, c, end) == [b EXCEPT !.calls = Append(@, [call |-> c, end |-> end])]

\* lifespan, line 124: init_garmin_client returned client.
InitReturns(b, client) ==
    /\ garmin_client' = client
    /\ boot' = [b EXCEPT !.end = "returned"]
    /\ pc' = "booted"

\* Mutant of InitRaises: the lifespan does not catch, and the process dies.
InitRaises_crash(b, err) ==
    /\ garmin_client' = garmin_client
    /\ boot' = [b EXCEPT !.end = err]
    /\ pc' = "crashed"

\* lifespan, lines 126-127: init_garmin_client raised; the error is logged and
\* the lifespan goes on.
InitRaises(b, err) ==
    /\ garmin_client' = garmin_client
    /\ boot' = [b EXCEPT !.end = err]
    /\ pc' = "booted"

\* Values of GARMIN_EMAIL and GARMIN_PASSWORD.
CredEnv == {Unset, "", "set"}

\* Lines 84-89: the credentials are read and checked.
CheckCredentials ==
    /\ pc = "init"
    /\ \E email \in CredEnv, password \in CredEnv :
          IF ~TruthyStr(email) \/ ~TruthyStr(password)
          THEN InitRaises(boot, "ValueError: credentials required")
          ELSE /\ pc' = "makedirs"
               /\ UNCHANGED <<parked, garmin_client, boot>>
    /\ UNCHANGED <<parked, API_KEY, ENABLE_PROMETHEUS, tokenDir, gauges, req>>

\* Line 91: os.makedirs(token_store, exist_ok=True).
MakeTokenDir ==
    /\ pc = "makedirs"
    /\ \E ok \in BOOLEAN :
          IF ok
          THEN /\ tokenDir' = MadeDir(tokenDir)
               /\ boot' = Called(boot, "makedirs", "ok")
               /\ pc' = "cached"
               /\ UNCHANGED garmin_client
          ELSE /\ InitRaises(Called(boot, "makedirs", "raises"), "OSError: makedirs")
               /\ UNCHANGED tokenDir
    /\ UNCHANGED <<parked, API_KEY, ENABLE_PROMETHEUS, gauges, req>>

\* What client.login(token_store) followed by get_full_name() may do: the load
\* succeeds only on a complete bundle, and the server may still reject it.
CachedOutcomes(dir) ==
    IF dir \in Bundles THEN {"load_fails", "verify_fails", "verified"}
    ELSE {"load_fails"}

\* Mutant of CachedCalls: a failed load is tried a second time.
CachedCalls_retry(b, outcome) ==
    CASE outcome = "load_fails" ->
            Called(Called(b, "login(tokens)", "raises"), "login(tokens)", "raises")
      [] outcome = "verify_fails" ->
            Called(Called(b, "login(tokens)", "ok"), "get_full_name", "raises")
      [] OTHER -> Called(Called(b, "login(tokens)", "ok"), "get_full_name", "ok")

\* The calls of the cached attempt, lines 95-98: get_full_name is reached only
\* when the load succeeded.
CachedCalls(b, outcome) ==
    CASE outcome = "load_fails" -> Called(b, "login(tokens)", "raises")
      [] outcome = "verify_fails" ->
            Called(Called(b, "login(tokens)", "ok"), "get_full_name", "raises")
      [] OTHER -> Called(Called(b, "login(tokens)", "ok"), "get_full_name", "ok")

\* Mutant of ReturnsCached: the return of line 100 is missing.
ReturnsCached_never(outcome) == FALSE

\* Line 100: the cached client is returned when nothing raised.
ReturnsCached(outcome) == outcome = "verified"

\* Lines 93-102: the cached-session attempt.
CachedLogin ==
    /\ pc = "cached"
    /\ \E outcome \in CachedOutcomes(tokenDir) :
          IF ReturnsCached(outcome)
          THEN InitReturns(CachedCalls(boot, outcome), "cached")
          ELSE /\ boot' = CachedCalls(boot, outcome)
               /\ pc' = "fresh"
               /\ UNCHANGED garmin_client
    /\ UNCHANGED <<parked, API_KEY, ENABLE_PROMETHEUS, tokenDir, gauges, req>>

\* What client.login() with credentials may do.
LoginOutcomes == {"ok", "needs_mfa", "raises"}

\* Mutant of NeedsMfa: the check of line 109 is missing.
NeedsMfa_never(result) == FALSE

\* Line 109: the result is a second-factor challenge.
NeedsMfa(result) == result = "needs_mfa"

\* Lines 104-110: the fresh login and the second-factor check.
FreshLogin ==
    /\ pc = "fresh"
    /\ \E result \in LoginOutcomes :
          CASE result = "raises" ->
                  InitRaises(Called(boot, "login(credentials)", result),
                             "GarminConnectAuthenticationError")
            [] result # "raises" /\ NeedsMfa(result) ->
                  InitRaises(Called(boot, "login(credentials)", result),
                             "ValueError: MFA required")
            [] OTHER ->
                  /\ boot' = Called(boot, "login(credentials)", result)
                  /\ pc' = "dump"
                  /\ UNCHANGED garmin_client
    /\ UNCHANGED <<parked, API_KEY, ENABLE_PROMETHEUS, tokenDir, gauges, req>>

\* How garth.dump(dir) may end.
DumpEnds == {"written", "fails", "fails_half_written"}

\* What garth.dump(dir) leaves on disk: the writer's bundle in place of what was
\* there, or, when it fails, the directory as it was or a half-written bundle.
Dumped(dir, writer, end) ==
    CASE end = "written" -> writer
      [] end = "fails" -> dir
      [] OTHER -> "partial"

\* Lines 112-116: the tokens are saved and the client returned. dump is not
\* wrapped in a try: when it raises, init_garmin_client raises.
DumpTokens ==
    /\ pc = "dump"
    /\ \E end \in DumpEnds :
          /\ tokenDir' = Dumped(tokenDir, "svc", end)
          /\ IF end = "written"
             THEN InitReturns(Called(boot, "dump", "ok"), "fresh")
             ELSE InitRaises(Called(boot, "dump", "raises"), "OSError: dump")
    /\ UNCHANGED <<parked, API_KEY, ENABLE_PROMETHEUS, gauges, req>>

\* What is left of a run of init_garmin_client once the lifespan goes on: how
\* it ended, as logged at line 125 or 127.
Ended(b) == [calls |-> <<>>, dir0 |-> "", end |-> b.end]

\* Line 128: the lifespan yields; the application serves requests.
StartServing ==
    /\ pc = "booted"
    /\ pc' = "serving"
    /\ boot' = Ended(boot)
    /\ UNCHANGED <<parked, API_KEY, ENABLE_PROMETHEUS, garmin_client, tokenDir, gauges, req>>

\* Line 129: the server has drained its requests and the lifespan resumes.
Shutdown ==
    /\ pc = "serving"
    /\ req.stage \in {"idle", "done"}
    /\ parked = Idle
    /\ garmin_client' = NoClient
    /\ pc' = "stopped"
    /\ req' = Idle
    /\ UNCHANGED <<parked, API_KEY, ENABLE_PROMETHEUS, tokenDir, boot, gauges>>

----------------------------------------------------------------------------
(* generate_tokens.py: the offline bootstrap, run by hand while the        *)
(* service is down.                                                        *)

\* main(): mkdir, login with return_on_mfa, resume_login on a challenge, dump.
\* Any failure before the dump ends the script with the directory as mkdir
\* left it; the dump leaves the bundle, or what a failed dump leaves.
OfflineBootstrap ==
    /\ pc = "off"
    /\ \E mkdirOk \in BOOLEAN, login \in LoginOutcomes, resumeOk \in BOOLEAN,
          end \in DumpEnds :
          IF ~mkdirOk THEN UNCHANGED tokenDir
          ELSE IF login = "raises" \/ (login = "needs_mfa" /\ ~resumeOk)
          THEN tokenDir' = MadeDir(tokenDir)
          ELSE tokenDir' = Dumped(MadeDir(tokenDir), "cli", end)
    /\ UNCHANGED <<parked, pc, API_KEY, ENABLE_PROMETHEUS, garmin_client, boot, gauges, req>>

----------------------------------------------------------------------------
(* The external collaborator: the garminconnect client.                    *)

\* A key that a payload does not hold.
Missing == -2

\* The exception an operation of the client raises.
UpstreamError == [type |-> "GarminConnectConnectionError", msg |-> "upstream failure"]

\* str(e)
Str(e) == e.msg

\* The JSON a successful operation answers, for the routes that pass it on
\* without reading it.
Opaque(op, args) == [data |-> op, for |-> args]

\* JSON null in the place of such a payload.
JsonNull == [data |-> "null", for |-> <<>>]

\* The two ways a call of the client ends: it returns a value or it raises.
Ok(v) == [ok |-> TRUE, value |-> v]
Failed == [ok |-> FALSE, value |-> UpstreamError]

\* One call of the client and how it ended, as the handlers' log keeps it.
Call(op, args, out) == [op |-> op, args |-> args, out |-> out]

\* A dict that holds value v under each of keys, or nothing when v is Missing.
SampleDict(keys, v) == IF v = Missing THEN [x \in {} |-> None] ELSE [x \in keys |-> v]

\* Step and calorie counts of the stats payloads: absent, null or a number.
Counts == {Missing, None} \cup (0..MaxCount)

\* get_stats(day): the fields the stats routes read.
StatsDict(day, steps, kcal) ==
    LET keys == {"calendarDate"}
                \cup (IF steps # Missing THEN {"totalSteps"} ELSE {})
                \cup (IF kcal # Missing THEN {"totalKilocalories"} ELSE {})
    IN  [x \in keys |-> CASE x = "calendarDate" -> day
                          [] x = "totalSteps" -> steps
                          [] OTHER -> kcal]

\* The payloads get_stats(day) may answer.
StatsDicts(day) == {StatsDict(day, s, k) : s \in Counts, k \in Counts}

----------------------------------------------------------------------------
(* The Access Gate: APIKeyMiddleware.dispatch, lines 51-69.                *)

\* The routes FastAPI serves by itself.
DocPaths == {"/docs", "/redoc", "/openapi.json"}

\* The single-operation data routes: path, client operation, how its arguments
\* are formed.
Routes ==
    {[path |-> "/stats/{date_str}", op |-> "get_stats", kind |-> "date"],
     [path |-> "/heart-rate/today", op |-> "get_heart_rates", kind |-> "today"],
     [path |-> "/heart-rate/{date_str}", op |-> "get_heart_rates", kind |-> "date"],
     [path |-> "/sleep/today", op |-> "get_sleep_data", kind |-> "today"],
     [path |-> "/sleep/{date_str}", op |-> "get_sleep_data", kind |-> "date"],
     [path |-> "/stress/today", op |-> "get_stress_data", kind |-> "today"],
     [path |-> "/stress/{date_str}", op |-> "get_stress_data", kind |-> "date"],
     [path |-> "/body-battery/today", op |-> "get_body_battery", kind |-> "today"],
     [path |-> "/body-battery/{date_str}", op |-> "get_body_battery", kind |-> "date"],
     [path |-> "/steps/today", op |-> "get_steps_data", kind |-> "today"],
     [path |-> "/steps/{date_str}", op |-> "get_steps_data", kind |-> "date"],
     [path |-> "/activities/recent", op |-> "get_activities", kind |-> "limit"],
     [path |-> "/activities/{activity_id}", op |-> "get_activity", kind |-> "id"],
     [path |-> "/activities/{activity_id}/splits", op |-> "get_activity_splits", kind |-> "id"],
     [path |-> "/activities/{activity_id}/hr-zones", op |-> "get_activity_hr_in_timezones", kind |-> "id"],
     [path |-> "/weight/latest", op |-> "get_body_composition", kind |-> "last30"],
     [path |-> "/weight/range", op |-> "get_body_composition", kind |-> "range"],
     [path |-> "/spo2/today", op |-> "get_spo2_data", kind |-> "today"],
     [path |-> "/spo2/{date_str}", op |-> "get_spo2_data", kind |-> "date"],
     [path |-> "/hrv/today", op |-> "get_hrv_data", kind |-> "today"],
     [path |-> "/hrv/{date_str}", op |-> "get_hrv_data", kind |-> "date"],
     [path |-> "/respiration/today", op |-> "get_respiration_data", kind |-> "today"],
     [path |-> "/respiration/{date_str}", op |-> "get_respiration_data", kind |-> "date"],
     [path |-> "/user/profile", op |-> "get_full_name", kind |-> "none"],
     [path |-> "/user/settings", op |-> "get_user_settings", kind |-> "none"],
     [path |-> "/devices", op |-> "get_devices", kind |-> "none"],
     [path |-> "/records", op |-> "get_personal_record", kind |-> "none"],
     [path |-> "/training/status", op |-> "get_training_status", kind |-> "today"]}

SingleOpPaths == {r.path : r \in Routes}

RouteOf(path) == CHOOSE r \in Routes : r.path = path

\* Every route declared with Depends(get_client).
DataPaths == SingleOpPaths \cup {"/stats/today", "/summary/today"}

\* Every route of the application.
Paths == DataPaths \cup {"/health", "/metrics"} \cup DocPaths

\* The values of the X-API-Key header: absent, the secret, another value.
Keys == {Unset, "secret", "wrong"}

\* The path and query parameters a request to path may carry.
ParamsOf(path) ==
    IF path \notin SingleOpPaths THEN {<<>>}
    ELSE CASE RouteOf(path).kind = "date" -> {<<d>> : d \in Days}
           [] RouteOf(path).kind = "limit" -> {<<10>>}
           [] RouteOf(path).kind = "id" -> {<<1>>}
           [] RouteOf(path).kind = "range" -> {<<Yesterday, Today>>}
           [] OTHER -> {<<>>}

\* Mutant of GatePasses: a request without the header is passed on.
GatePasses_no_header(secret, path, provided) ==
    \/ ~TruthyStr(secret)
    \/ path \in PUBLIC_PATHS
    \/ provided = Unset
    \/ provided = secret

\* dispatch: TRUE when the request is passed on (call_next), FALSE when it is
\* answered 401.
GatePasses(secret, path, provided) ==
    \/ ~TruthyStr(secret)
    \/ path \in PUBLIC_PATHS
    \/ provided = secret

\* A request as it arrives.
Request(path, key, params) ==
    [stage |-> "routed", path |-> path, key |-> key, params |-> params,
     client |-> NoClient, status |-> 0, body |-> <<>>, calls |-> <<>>]

\* The response of a request.
Respond(r, status, body) == [r EXCEPT !.stage = "done", !.status = status, !.body = body]

\* A request to one of paths arrives and goes through the middleware.
Dispatch(paths) ==
    /\ pc = "serving"
    /\ req.stage \in {"idle", "done"}
    /\ \E path \in paths, key \in Keys :
       \E params \in ParamsOf(path) :
          req' = IF GatePasses(API_KEY, path, key)
                 THEN Request(path, key, params)
                 ELSE Respond(Request(path, key, params), 401,
                              [error |-> "Unauthorized",
                               detail |-> "Invalid or missing API key"])
    /\ UNCHANGED <<parked, pc, API_KEY, ENABLE_PROMETHEUS, garmin_client, tokenDir, boot, gauges>>

\* Lines 55, 59, 69: "await call_next(request)" gives the event loop to
\* another task; the request the gate has passed waits for its route.
Park ==
    /\ pc = "serving"
    /\ req.stage = "routed"
    /\ parked = Idle
    /\ parked' = req
    /\ req' = Idle
    /\ UNCHANGED <<pc, API_KEY, ENABLE_PROMETHEUS, garmin_client, tokenDir, boot, gauges>>

\* The event loop comes back to the waiting request once the other task is
\* through or has not started.
Resume ==
    /\ pc = "serving"
    /\ req.stage \in {"idle", "done"}
    /\ parked # Idle
    /\ req' = parked
    /\ parked' = Idle
    /\ UNCHANGED <<pc, API_KEY, ENABLE_PROMETHEUS, garmin_client, tokenDir, boot, gauges>>

----------------------------------------------------------------------------
(* The routes.                                                             *)

\* Mutant of ClientMissing: the dependency never raises.
ClientMissing_never(client) == FALSE

\* get_client, line 77: the dependency raises when there is no client.
ClientMissing(client) == client = NoClient

\* get_client, lines 75-79, resolved before the body of a data route runs.
GetClient ==
    /\ pc = "serving"
    /\ req.stage = "routed"
    /\ req.path \in DataPaths
    /\ req' = IF ClientMissing(garmin_client)
              THEN Respond(req, 503, [detail |-> "Garmin client not initialized"])
              ELSE [req EXCEPT !.stage = "handler", !.client = garmin_client]
    /\ UNCHANGED <<parked, pc, API_KEY, ENABLE_PROMETHEUS, garmin_client, tokenDir, boot, gauges>>

\* health_check, lines 143-146.
HealthCheck ==
    /\ pc = "serving"
    /\ req.stage = "routed"
    /\ req.path = "/health"
    /\ req' = Respond(req, 200, [status |-> "healthy",
                                 garmin_connected |-> garmin_client # NoClient])
    /\ UNCHANGED <<parked, pc, API_KEY, ENABLE_PROMETHEUS, garmin_client, tokenDir, boot, gauges>>

\* The documentation pages FastAPI adds to the application, lines 132-137.
ServeDocs ==
    /\ pc = "serving"
    /\ req.stage = "routed"
    /\ req.path \in DocPaths
    /\ req' = Respond(req, 200, [page |-> req.path])
    /\ UNCHANGED <<parked, pc, API_KEY, ENABLE_PROMETHEUS, garmin_client, tokenDir, boot, gauges>>

\* The arguments a single-operation route hands to the client.
CallArgs(kind, params) ==
    CASE kind = "today" -> <<Today>>
      [] kind = "limit" -> <<0>> \o params
      [] kind = "last30" -> <<Today - 30, Today>>
      [] OTHER -> params

\* Mutant of SingleOpResponse: a failed call is tried once more before the
\* route gives up.
SingleOpResponse_retry(r, op, args, out) ==
    IF out.ok THEN Respond([r EXCEPT !.calls = Append(@, Call(op, args, out))],
                           200, out.value)
    ELSE Respond([r EXCEPT !.calls = @ \o <<Call(op, args, out), Call(op, args, out)>>],
                 500, [detail |-> Str(out.value)])

\* The response of a single-operation route to the outcome of its call.
SingleOpResponse(r, op, args, out) ==
    IF out.ok THEN Respond([r EXCEPT !.calls = Append(@, Call(op, args, out))],
                           200, out.value)
    ELSE Respond([r EXCEPT !.calls = Append(@, Call(op, args, out))],
                 500, [detail |-> Str(out.value)])

\* Mutant of SingleOpRoute: a route whose call raised drops the handle, as a
\* service that re-authenticates on failure would.
SingleOpRoute_drop ==
    /\ pc = "serving"
    /\ req.stage = "handler"
    /\ req.path \in SingleOpPaths
    /\ LET op == RouteOf(req.path).op
           args == CallArgs(RouteOf(req.path).kind, req.params)
       IN  \E out \in {Failed, Ok(Opaque(op, args))} :
              /\ req' = SingleOpResponse(req, op, args, out)
              /\ garmin_client' = IF out.ok THEN garmin_client ELSE NoClient
    /\ UNCHANGED <<parked, pc, API_KEY, ENABLE_PROMETHEUS, tokenDir, boot, gauges>>

\* The single-operation routes, lines 168-452: one call, passed through.
SingleOpRoute ==
    /\ pc = "serving"
    /\ req.stage = "handler"
    /\ req.path \in SingleOpPaths
    /\ LET op == RouteOf(req.path).op
           args == CallArgs(RouteOf(req.path).kind, req.params)
       IN  \E out \in {Failed, Ok(Opaque(op, args))} :
              req' = SingleOpResponse(req, op, args, out)
    /\ UNCHANGED <<parked, pc, API_KEY, ENABLE_PROMETHEUS, garmin_client, tokenDir, boot, gauges>>

\* Mutant of NoDataToday: "not x" in the place of "x is None".
NoDataToday_falsy(stats) ==
    ~Truthy(Get(stats, "totalSteps")) /\ ~Truthy(Get(stats, "totalKilocalories"))

\* Line 158: today's stats hold no step count and no calorie count.
NoDataToday(stats) ==
    Get(stats, "totalSteps") = None /\ Get(stats, "totalKilocalories") = None

\* Lines 161-162: the fallback marker and the requested date.
MarkFallback(stats, today) ==
    Put(Put(stats, "_fallback", TRUE), "_requestedDate", today)

\* How get_stats(day) may end.
StatsOutcomes(day) == {Failed} \cup {Ok(d) : d \in StatsDicts(day)}

\* get_today_stats, lines 154-165, given how the fetch for today and, when it
\* is made, the fetch for yesterday end.
TodayStatsResponse(r, first, second) ==
    LET c1 == Call("get_stats", <<Today>>, first)
        c2 == Call("get_stats", <<Today - 1>>, second)
    IN  IF ~first.ok
        THEN Respond([r EXCEPT !.calls = <<c1>>], 500, [detail |-> Str(first.value)])
        ELSE IF NoDataToday(first.value)
        THEN IF second.ok
             THEN Respond([r EXCEPT !.calls = <<c1, c2>>], 200,
                          MarkFallback(second.value, Today))
             ELSE Respond([r EXCEPT !.calls = <<c1, c2>>], 500,
                          [detail |-> Str(second.value)])
        ELSE Respond([r EXCEPT !.calls = <<c1>>], 200, first.value)

\* /stats/today
GetTodayStats ==
    /\ pc = "serving"
    /\ req.stage = "handler"
    /\ req.path = "/stats/today"
    /\ \E first \in StatsOutcomes(Today), second \in StatsOutcomes(Today - 1) :
          req' = TodayStatsResponse(req, first, second)
    /\ UNCHANGED <<parked, pc, API_KEY, ENABLE_PROMETHEUS, garmin_client, tokenDir, boot, gauges>>

\* get_today_summary: the six keys and the operation behind each, in the order
\* of lines 463-491.
SummaryParts ==
    <<[key |-> "stats", op |-> "get_stats"],
      [key |-> "heart_rate", op |-> "get_heart_rates"],
      [key |-> "sleep", op |-> "get_sleep_data"],
      [key |-> "stress", op |-> "get_stress_data"],
      [key |-> "body_battery", op |-> "get_body_battery"],
      [key |-> "steps", op |-> "get_steps_data"]>>

SummaryKeys == {SummaryParts[i].key : i \in DOMAIN SummaryParts}

PartOf(key) == CHOOSE i \in DOMAIN SummaryParts : SummaryParts[i].key = key

\* The calls get_today_summary makes when its fetches end as outs.
SummaryCalls(outs) ==
    [i \in DOMAIN SummaryParts |-> Call(SummaryParts[i].op, <<Today>>, outs[i])]

\* Mutant of SummaryBody: one try block around the six fetches, so that the
\* keys from the first failure on are null.
SummaryBody_one_try(outs) ==
    [k \in SummaryKeys |->
        IF \A i \in 1..PartOf(k) : outs[i].ok THEN outs[PartOf(k)].value ELSE JsonNull]

\* The dict get_today_summary returns when its fetches end as outs.
SummaryBody(outs) ==
    [k \in SummaryKeys |-> IF outs[PartOf(k)].ok THEN outs[PartOf(k)].value ELSE JsonNull]

\* /summary/today, lines 457-493.
GetTodaySummary ==
    /\ pc = "serving"
    /\ req.stage = "handler"
    /\ req.path = "/summary/today"
    /\ \E oks \in [DOMAIN SummaryParts -> BOOLEAN] :
          LET outs == [i \in DOMAIN SummaryParts |->
                          IF oks[i] THEN Ok(Opaque(SummaryParts[i].op, <<Today>>))
                          ELSE Failed]
          IN  req' = Respond([req EXCEPT !.calls = SummaryCalls(outs)],
                             200, SummaryBody(outs))
    /\ UNCHANGED <<parked, pc, API_KEY, ENABLE_PROMETHEUS, garmin_client, tokenDir, boot, gauges>>

----------------------------------------------------------------------------
(* The Metrics Projector: lines 498-616.                                   *)

\* generate_latest(): one sample line per registered gauge.
Exposition(g) == {<<name, g[name]>> : name \in DOMAIN g}

\* gauge.set(value) under "if value:".
SetIf(g, name, v) == IF Truthy(v) THEN [g EXCEPT ![name] = v] ELSE g

\* "value or 0"
OrZero(v) == IF Truthy(v) THEN v ELSE 0

\* Lines 515-539.
StatsGauges(g, stats) ==
    IF DOMAIN stats = {} THEN g
    ELSE
    LET g1 == SetIf(g, "garmin_steps_today", Get(stats, "totalSteps"))
        g2 == SetIf(g1, "garmin_calories_today", Get(stats, "totalKilocalories"))
        g3 == SetIf(g2, "garmin_active_calories_today", Get(stats, "activeKilocalories"))
        g4 == SetIf(g3, "garmin_distance_meters", Get(stats, "totalDistanceMeters"))
        g5 == SetIf(g4, "garmin_heart_rate_resting", Get(stats, "restingHeartRate"))
        g6 == SetIf(g5, "garmin_heart_rate_min", Get(stats, "minHeartRate"))
        g7 == SetIf(g6, "garmin_heart_rate_max", Get(stats, "maxHeartRate"))
        g8 == SetIf(g7, "garmin_stress_avg", Get(stats, "averageStressLevel"))
        g9 == SetIf(g8, "garmin_stress_max", Get(stats, "maxStressLevel"))
        g10 == SetIf(g9, "garmin_floors_climbed", Get(stats, "floorsAscended"))
        moderate == Get(stats, "moderateIntensityMinutes")
        vigorous == Get(stats, "vigorousIntensityMinutes")
    IN  IF Truthy(moderate) \/ Truthy(vigorous)
        THEN [g10 EXCEPT !["garmin_intensity_minutes"] = OrZero(moderate) + OrZero(vigorous)]
        ELSE g10

\* Lines 546-558: the level of the last reading, charged and drained of the first.
BodyBatteryGauges(g, readings) ==
    IF Len(readings) = 0 THEN g
    ELSE
    LET latest == readings[Len(readings)]
        first == readings[1]
        g1 == IF DOMAIN latest = {} THEN g
              ELSE SetIf(g, "garmin_body_battery_current", Get(latest, "bodyBatteryLevel"))
        g2 == SetIf(g1, "garmin_body_battery_charged", Get(first, "bodyBatteryChargedValue"))
    IN  SetIf(g2, "garmin_body_battery_drained", Get(first, "bodyBatteryDrainedValue"))

\* Lines 565-569. The dict holds under "overallSleepScore" the "value" of the
\* score object, or None when the score object is null: .get("value") on it
\* raises, and line 570 catches that after the seconds were set.
SleepGauges(g, sleep) ==
    IF DOMAIN sleep = {} THEN g
    ELSE
    LET g1 == SetIf(g, "garmin_sleep_seconds", Get(sleep, "sleepTimeSeconds"))
    IN  SetIf(g1, "garmin_sleep_score", Get(sleep, "overallSleepScore"))

\* Lines 576-577.
Spo2Gauges(g, spo2) == SetIf(g, "garmin_spo2_avg", Get(spo2, "averageSpO2"))

\* Lines 584-585.
RespirationGauges(g, resp) ==
    SetIf(g, "garmin_respiration_avg", Get(resp, "avgWakingRespirationValue"))

\* Lines 596-601: grams to kilograms; the sampled weights are whole kilograms.
WeightGauges(g, data) ==
    LET g1 == IF Truthy(Get(data, "weight"))
              THEN [g EXCEPT !["garmin_weight_kg"] = Get(data, "weight") \div 1000]
              ELSE g
        g2 == SetIf(g1, "garmin_bmi", Get(data, "bmi"))
    IN  SetIf(g2, "garmin_body_fat_percentage", Get(data, "bodyFat"))

\* The six fetches of a scrape, in the order of lines 512-603.
ScrapeOps ==
    <<[op |-> "get_stats", args |-> <<Today>>],
      [op |-> "get_body_battery", args |-> <<Today>>],
      [op |-> "get_sleep_data", args |-> <<Today>>],
      [op |-> "get_spo2_data", args |-> <<Today>>],
      [op |-> "get_respiration_data", args |-> <<Today>>],
      [op |-> "get_body_composition", args |-> <<Today - 30, Today>>]>>

\* The gauges after the i-th fetch of a scrape returned value.
ScrapeSet(i, g, value) ==
    CASE i = 1 -> StatsGauges(g, value)
      [] i = 2 -> BodyBatteryGauges(g, value)
      [] i = 3 -> SleepGauges(g, value)
      [] i = 4 -> Spo2Gauges(g, value)
      [] i = 5 -> RespirationGauges(g, value)
      [] OTHER -> WeightGauges(g, value)

\* The fields of the stats payload the scrape reads.
StatsGaugeKeys ==
    {"totalSteps", "totalKilocalories", "activeKilocalories", "totalDistanceMeters",
     "restingHeartRate", "minHeartRate", "maxHeartRate", "averageStressLevel",
     "maxStressLevel", "floorsAscended", "moderateIntensityMinutes",
     "vigorousIntensityMinutes"}

\* A scrape's payloads hold the same value in each field they have: no field
\* (an empty payload), null, zero or a reading.
NoReadings == {Missing, None, 0}
FieldValues == NoReadings \cup {2}

\* The payloads the i-th fetch of a scrape may answer, their fields drawn from
\* values; a weight is in grams.
ScrapePayloads(i, values) ==
    CASE i = 1 -> {SampleDict(StatsGaugeKeys, v) : v \in values}
      [] i = 2 -> {<<>>}
                  \cup {<<SampleDict({"bodyBatteryLevel", "bodyBatteryChargedValue",
                                      "bodyBatteryDrainedValue"}, v)>> : v \in values}
      [] i = 3 -> {SampleDict({"sleepTimeSeconds", "overallSleepScore"}, v) : v \in values}
      [] i = 4 -> {SampleDict({"averageSpO2"}, v) : v \in values}
      [] i = 5 -> {SampleDict({"avgWakingRespirationValue"}, v) : v \in values}
      [] OTHER -> {SampleDict({"weight", "bmi", "bodyFat"}, v) : v \in values \cap {Missing, None}}
                  \cup {[weight |-> 1000 * v, bmi |-> v, bodyFat |-> v] :
                           v \in values \ {Missing, None}}

\* Mutant of ConnectedValue: the gauge is set to 1 whatever the client.
ConnectedValue_one(client) == 1

\* Line 505: 1 if garmin_client else 0.
ConnectedValue(client) == IF client # NoClient THEN 1 ELSE 0

\* What the log of a scrape keeps of a fetch: whether it returned.
Seen(out) == [ok |-> out.ok]

\* prometheus_metrics, lines 505-510: the connectivity gauge, and the payload
\* at once when there is no client.
PrometheusMetrics ==
    /\ pc = "serving"
    /\ req.stage = "routed"
    /\ req.path = "/metrics"
    /\ ENABLE_PROMETHEUS
    /\ gauges' = [gauges EXCEPT !["garmin_connected"] = ConnectedValue(garmin_client)]
    /\ req' = IF garmin_client = NoClient
              THEN Respond(req, 200, Exposition(gauges'))
              ELSE [req EXCEPT !.stage = "scrape", !.client = garmin_client]
    /\ UNCHANGED <<parked, pc, API_KEY, ENABLE_PROMETHEUS, garmin_client, tokenDir, boot>>

\* prometheus_metrics, lines 512-605: the next fetch of the scrape and its
\* gauges; the payload after the sixth. The payloads' fields are drawn from values.
ScrapeFetch(values) ==
    /\ pc = "serving"
    /\ req.stage = "scrape"
    /\ LET i == Len(req.calls) + 1
           fetch == ScrapeOps[i]
       IN  \E out \in {Failed} \cup {Ok(v) : v \in ScrapePayloads(i, values)} :
              /\ gauges' = IF out.ok THEN ScrapeSet(i, gauges, out.value) ELSE gauges
              /\ LET logged == [req EXCEPT !.calls =
                                   Append(@, Call(fetch.op, fetch.args, Seen(out)))]
                 IN  req' = IF i = Len(ScrapeOps)
                            THEN Respond(logged, 200, Exposition(gauges'))
                            ELSE logged
    /\ UNCHANGED <<parked, pc, API_KEY, ENABLE_PROMETHEUS, garmin_client, tokenDir, boot>>

\* prometheus_metrics_disabled, lines 606-616.
PrometheusMetricsDisabled ==
    /\ pc = "serving"
    /\ req.stage = "routed"
    /\ req.path = "/metrics"
    /\ ~ENABLE_PROMETHEUS
    /\ req' = Respond(req, 404, [error |-> "Prometheus metrics disabled",
                                 detail |-> "Set ENABLE_PROMETHEUS=true to enable metrics"])
    /\ UNCHANGED <<parked, pc, API_KEY, ENABLE_PROMETHEUS, garmin_client, tokenDir, boot, gauges>>

----------------------------------------------------------------------------
(* The whole program.                                                      *)

\* The machine before the service is started: no token directory, no process.
Init ==
    /\ pc = "off"
    /\ API_KEY = Unset
    /\ ENABLE_PROMETHEUS = FALSE
    /\ garmin_client = NoClient
    /\ tokenDir = "missing"
    /\ boot = [calls |-> <<>>, dir0 |-> "", end |-> "off"]
    /\ gauges = NoGauges
    /\ req = Idle
    /\ parked = Idle

\* The process ends: its memory is gone, the token directory stays.
Exit ==
    /\ pc = "stopped"
    /\ pc' = "off"
    /\ API_KEY' = Unset
    /\ ENABLE_PROMETHEUS' = FALSE
    /\ garmin_client' = NoClient
    /\ boot' = [calls |-> <<>>, dir0 |-> "", end |-> "off"]
    /\ gauges' = NoGauges
    /\ req' = Idle
    /\ UNCHANGED <<parked, tokenDir>>

\* A step of the program, the environment sending requests to paths and
\* answering scrapes with fields drawn from values.
Step(paths, values) ==
    \/ OfflineBootstrap
    \/ Import
    \/ CheckCredentials
    \/ MakeTokenDir
    \/ CachedLogin
    \/ FreshLogin
    \/ DumpTokens
    \/ StartServing
    \/ Dispatch(paths)
    \/ GetClient
    \/ HealthCheck
    \/ ServeDocs
    \/ SingleOpRoute
    \/ GetTodayStats
    \/ GetTodaySummary
    \/ PrometheusMetrics
    \/ ScrapeFetch(values)
    \/ PrometheusMetricsDisabled
    \/ Shutdown
    \/ Exit

Next == Step(Paths, FieldValues) \/ Park \/ Resume

\* The program with every input of the model.
Spec == Init /\ [][Next]_vars

\* Every route; the scrapes find no reading upstream, so that the gauges other
\* than the connectivity gauge keep their first value.
NextRoutes == Step(Paths, NoReadings)

SpecRoutes == Init /\ [][NextRoutes]_vars

\* The paths of the lifetime specification: a single-operation route, the two
\* composed routes, the public routes.
LifetimePaths == {"/stats/{date_str}", "/stats/today", "/summary/today",
                  "/metrics", "/health", "/docs"}

\* Two requests in flight: one may wait in the middleware while another is
\* received, rejected or served.
NextLifetime == Step(LifetimePaths, NoReadings) \/ Park \/ Resume

SpecLifetime == Init /\ [][NextLifetime]_vars

\* The paths of the scrape specification.
ScrapePaths == {"/metrics", "/health"}

\* The Metrics Projector with every payload of the model; the environment asks
\* for /metrics and /health only.
NextScrape ==
    \/ OfflineBootstrap
    \/ Import
    \/ CheckCredentials
    \/ MakeTokenDir
    \/ CachedLogin
    \/ FreshLogin
    \/ DumpTokens
    \/ StartServing
    \/ Dispatch(ScrapePaths)
    \/ HealthCheck
    \/ PrometheusMetrics
    \/ ScrapeFetch(FieldValues)
    \/ PrometheusMetricsDisabled
    \/ Shutdown
    \/ Exit

SpecScrape == Init /\ [][NextScrape]_vars

----------------------------------------------------------------------------
(* Properties.                                                             *)

\* The log of init_garmin_client holds a call that ended so.
Has(call, end) == \E i \in DOMAIN boot.calls : boot.calls[i] = [call |-> call, end |-> end]

\* How many times init_garmin_client made a call.
CountCalls(call) == Cardinality({i \in DOMAIN boot.calls : boot.calls[i].call = call})

\* A request has been answered.
Answered == req.stage = "done"

\* C1: while there is no session handle, a request to a data route makes no
\* call of the client and never reaches the body of the route, and the route
\* answers 503 "Garmin client not initialized"; the only other answer such a
\* request gets is the 401 of the Access Gate, given before the route.
C1_NoClientUnavailable ==
    (pc = "serving" /\ garmin_client = NoClient /\ req.stage # "idle"
        /\ req.path \in DataPaths)
    => /\ req.calls = <<>>
       /\ req.stage \in {"routed", "done"}
       /\ Answered =>
            \/ /\ req.status = 503
               /\ req.body = [detail |-> "Garmin client not initialized"]
            \/ /\ req.status = 401
               /\ TruthyStr(API_KEY) /\ req.key # API_KEY

C1_Witness ==
    /\ pc = "serving" /\ garmin_client = NoClient
    /\ Answered /\ req.path = "/summary/today" /\ req.status = 503

\* C2: with a secret configured, a request to a path outside the allow-list
\* whose X-API-Key is missing or differs from the secret is answered 401 at
\* once: no client is looked up and no call of the client is made, whether a
\* handle exists or not. A request to an allow-listed path, and any request
\* when no secret is configured, is never answered 401.
C2_AccessGate ==
    req.stage # "idle"
    => /\ (API_KEY \notin {Unset, ""} /\ req.path \notin PUBLIC_PATHS /\ req.key # API_KEY)
          => /\ Answered /\ req.status = 401
             /\ req.body = [error |-> "Unauthorized",
                            detail |-> "Invalid or missing API key"]
             /\ req.client = NoClient /\ req.calls = <<>>
       /\ req.path \in {"/health", "/metrics", "/docs", "/redoc", "/openapi.json"}
          => req.status # 401
       /\ API_KEY \in {Unset, ""} => req.status # 401

C2_Witness ==
    /\ Answered /\ req.status = 401 /\ req.key = Unset
    /\ garmin_client # NoClient /\ req.path = "/stats/today"

\* C3: when the cached session loads and its verification call succeeds,
\* init_garmin_client makes no login with credentials and no dump, leaves the
\* token directory as it was, and returns the cached client.
C3_CachedSessionNoFreshLogin ==
    (Has("login(tokens)", "ok") /\ Has("get_full_name", "ok"))
    => /\ CountCalls("login(credentials)") = 0
       /\ CountCalls("dump") = 0
       /\ tokenDir = boot.dir0
       /\ pc = "booted" /\ boot.end = "returned"
       /\ garmin_client = "cached"

C3_Witness ==
    /\ pc = "booted" /\ garmin_client = "cached"
    /\ Has("login(tokens)", "ok") /\ Has("get_full_name", "ok")

\* The cached attempt failed: the load raised, or the verification call did.
CachedFailed == Has("login(tokens)", "raises") \/ Has("get_full_name", "raises")

\* C4: when the cached attempt fails it is not made again, and by the end of
\* init_garmin_client exactly one login with credentials was made; when that
\* login succeeds without a challenge the dump is the next and last call, and a
\* returned handle is the fresh client, with the new bundle in the token
\* directory in the place of what was there.
C4_OneFreshLoginThenDump ==
    CachedFailed
    => /\ CountCalls("login(tokens)") = 1
       /\ CountCalls("get_full_name") <= 1
       /\ CountCalls("login(credentials)") <= 1
       /\ pc = "booted"
          => /\ CountCalls("login(credentials)") = 1
             /\ Has("login(credentials)", "ok")
                => /\ CountCalls("dump") = 1
                   /\ boot.calls[Len(boot.calls)].call = "dump"
             /\ boot.end = "returned"
                => /\ Has("login(credentials)", "ok")
                   /\ boot.calls[Len(boot.calls)] = [call |-> "dump", end |-> "ok"]
                   /\ tokenDir = "svc"
                   /\ garmin_client = "fresh"

C4_Witness ==
    /\ pc = "booted" /\ garmin_client = "fresh"
    /\ Has("get_full_name", "raises")
    /\ boot.dir0 = "cli" /\ tokenDir = "svc"

\* C5: when the login with credentials answers a second-factor challenge,
\* init_garmin_client ends with the MFA error: no dump and no resume_login is
\* made, the token directory holds what it held (created empty if it was
\* missing), and there is no handle.
C5_MfaFailsWithoutWrite ==
    /\ Has("login(credentials)", "needs_mfa")
       => /\ pc = "booted" /\ boot.end = "ValueError: MFA required"
          /\ CountCalls("dump") = 0
          /\ CountCalls("resume_login") = 0
          /\ tokenDir = MadeDir(boot.dir0)
    /\ boot.end = "ValueError: MFA required" => garmin_client = NoClient

C5_Witness ==
    /\ pc = "booted" /\ Has("login(credentials)", "needs_mfa")
    /\ boot.dir0 = "cli" /\ tokenDir = "cli"

\* C6 (as claimed): when the login with credentials succeeds and the dump
\* fails, init_garmin_client still returns the handle, and the routes are
\* served with it.
C6_DumpFailureNotFatal ==
    /\ (pc = "booted" /\ Has("login(credentials)", "ok") /\ Has("dump", "raises"))
       => (garmin_client = "fresh" /\ boot.end = "returned")
    /\ (pc = "serving" /\ boot.end = "OSError: dump") => garmin_client # NoClient

\* The ends of init_garmin_client that C7 names.
FatalEnds ==
    {"ValueError: credentials required", "OSError: makedirs",
     "ValueError: MFA required", "GarminConnectAuthenticationError"}

\* C7: after a fatal end of init_garmin_client the process is alive with no
\* handle and goes on to serve; /health is always answered 200 with
\* garmin_connected telling whether there is a handle.
C7_DegradeToUnavailable ==
    /\ boot.end \in FatalEnds
       => /\ pc \in {"booted", "serving", "stopped"}
          /\ garmin_client = NoClient
          /\ pc = "booted" => ENABLED StartServing
    /\ (Answered /\ req.path = "/health")
       => /\ req.status = 200
          /\ req.body = [status |-> "healthy",
                         garmin_connected |-> garmin_client # NoClient]

C7_Witness ==
    /\ pc = "serving" /\ boot.end = "OSError: makedirs"
    /\ Answered /\ req.path = "/health" /\ req.status = 200
    /\ req.body.garmin_connected = FALSE

\* A field of a stats payload is null or absent.
NullOrAbsent(stats, field) == field \notin DOMAIN stats \/ stats[field] = None

\* C8: when the fetch of today's stats returns with step count and calorie
\* count both null or absent, /stats/today makes exactly one more fetch, for
\* yesterday, and answers its payload with _fallback set and _requestedDate
\* today; when either is not null it makes no other fetch and answers today's
\* payload as it is, without a fallback marker.
C8_StatsTodayFallback ==
    (Answered /\ req.path = "/stats/today" /\ req.calls # <<>>)
    => /\ req.calls[1].op = "get_stats" /\ req.calls[1].args = <<Today>>
       /\ req.calls[1].out.ok
          => LET today == req.calls[1].out.value
             IN  IF NullOrAbsent(today, "totalSteps")
                    /\ NullOrAbsent(today, "totalKilocalories")
                 THEN /\ Len(req.calls) = 2
                      /\ req.calls[2].op = "get_stats"
                      /\ req.calls[2].args = <<Yesterday>>
                      /\ req.calls[2].out.ok
                         => /\ req.status = 200
                            /\ DOMAIN req.body =
                                 DOMAIN req.calls[2].out.value
                                 \cup {"_fallback", "_requestedDate"}
                            /\ \A k \in DOMAIN req.calls[2].out.value :
                                 req.body[k] = req.calls[2].out.value[k]
                            /\ req.body["_fallback"] = TRUE
                            /\ req.body["_requestedDate"] = Today
                 ELSE /\ Len(req.calls) = 1
                      /\ req.status = 200
                      /\ req.body = today
                      /\ "_fallback" \notin DOMAIN req.body

C8_Witness ==
    /\ Answered /\ req.path = "/stats/today" /\ req.status = 200
    /\ Len(req.calls) = 2
    /\ "_fallback" \in DOMAIN req.body
    /\ req.body["calendarDate"] = Yesterday

\* C9: with a handle, /summary/today makes its six fetches whatever their
\* outcomes and answers 200 with the six keys, each holding the payload of its
\* fetch when it returned and null when it raised.
C9_SummaryAlwaysSixKeys ==
    (Answered /\ req.path = "/summary/today" /\ req.status \notin {401, 503})
    => /\ req.status = 200
       /\ DOMAIN req.body =
            {"stats", "heart_rate", "sleep", "stress", "body_battery", "steps"}
       /\ Len(req.calls) = 6
       /\ <<req.calls[1].op, req.calls[2].op, req.calls[3].op,
            req.calls[4].op, req.calls[5].op, req.calls[6].op>>
          = <<"get_stats", "get_heart_rates", "get_sleep_data",
              "get_stress_data", "get_body_battery", "get_steps_data">>
       /\ \A i \in 1..6 :
            /\ req.calls[i].args = <<Today>>
            /\ req.body[SummaryParts[i].key] =
                 IF req.calls[i].out.ok THEN req.calls[i].out.value ELSE JsonNull

C9_Witness ==
    /\ Answered /\ req.path = "/summary/today" /\ req.status = 200
    /\ ~req.calls[1].out.ok /\ req.calls[2].out.ok /\ ~req.calls[6].out.ok
    /\ req.body["heart_rate"] # JsonNull

\* The names of the gauges an exposition holds.
GaugesIn(payload) == {sample[1] : sample \in payload}

\* C10 (as claimed): with the metrics disabled /metrics is answered 404 and no
\* call of the client is made; with them enabled and no handle the
\* connectivity gauge is set to 0, no fetch is made and the payload holds no
\* other gauge.
C10_MinimalPayload ==
    (req.stage # "idle" /\ req.path = "/metrics")
    => /\ ~ENABLE_PROMETHEUS
          => /\ req.calls = <<>>
             /\ Answered => req.status = 404
       /\ (ENABLE_PROMETHEUS /\ garmin_client = NoClient)
          => /\ req.calls = <<>>
             /\ Answered
                => /\ req.status = 200
                   /\ gauges["garmin_connected"] = 0
                   /\ GaugesIn(req.body) = {"garmin_connected"}

\* C10 (amended): with the metrics disabled /metrics is answered 404 and no
\* call of the client is made, with or without a handle; with them enabled and
\* no handle the connectivity gauge is set to 0, no fetch is made, and the
\* payload is the whole registry: the connectivity gauge at 0 and every other
\* gauge at the value 0 it was registered with.
C10_MetricsWithoutClient ==
    (req.stage # "idle" /\ req.path = "/metrics")
    => /\ ~ENABLE_PROMETHEUS
          => /\ req.calls = <<>>
             /\ req.stage \in {"routed", "done"}
             /\ Answered
                => /\ req.status = 404
                   /\ req.body.error = "Prometheus metrics disabled"
       /\ (ENABLE_PROMETHEUS /\ garmin_client = NoClient)
          => /\ req.calls = <<>>
             /\ req.stage \in {"routed", "done"}
             /\ Answered
                => /\ req.status = 200
                   /\ gauges["garmin_connected"] = 0
                   /\ req.body = {<<name, 0>> : name \in GaugeNames}

C10_Witness ==
    /\ pc = "serving" /\ ENABLE_PROMETHEUS /\ garmin_client = NoClient
    /\ Answered /\ req.path = "/metrics" /\ req.status = 200

----------------------------------------------------------------------------
\* A request that a single-operation route has answered with a client in hand.
SingleOpAnswered ==
    /\ Answered
    /\ req.path \in SingleOpPaths
    /\ req.client # NoClient

\* C11: a single-operation data route with a live Session Handle makes exactly
\* one call of the client, the operation of the route with the arguments of
\* the request; when the call raises, the answer is a 500 whose detail is the
\* message of the exception, and no other call was made; when it returns, the
\* answer is the returned value itself.
C11_SingleOpPassThrough ==
    SingleOpAnswered =>
        /\ Len(req.calls) = 1
        /\ req.calls[1].op = RouteOf(req.path).op
        /\ req.calls[1].args = CallArgs(RouteOf(req.path).kind, req.params)
        /\ req.calls[1].out.ok =>
              /\ req.status = 200
              /\ req.body = req.calls[1].out.value
        /\ ~req.calls[1].out.ok =>
              /\ req.status = 500
              /\ req.body = [detail |-> Str(req.calls[1].out.value)]

\* A single-operation route whose one call raised has answered 500.
C11_Witness ==
    /\ SingleOpAnswered
    /\ req.path = "/weight/latest"
    /\ Len(req.calls) = 1
    /\ ~req.calls[1].out.ok
    /\ req.status = 500

----------------------------------------------------------------------------
\* C12: from the moment the lifespan yields until the process ends, no step
\* runs init_garmin_client again and no step changes the handle, whatever the
\* requests and however they interleave, but the shutdown, which sets it to
\* absent; a live handle is set to absent by the shutdown only.
C12_HandleFixedAfterBootstrap ==
    [][/\ pc = "serving" =>
            /\ boot' = boot
            /\ pc' \in {"serving", "stopped"}
            /\ garmin_client' # garmin_client =>
                  /\ pc' = "stopped"
                  /\ garmin_client' = NoClient
       /\ pc = "stopped" => pc' = "off"
       /\ (garmin_client # NoClient /\ garmin_client' = NoClient) =>
            (pc = "serving" /\ pc' = "stopped")]_vars

\* With a live handle, a request waits in the middleware while another has
\* been answered 500 after its call raised.
C12_Witness ==
    /\ pc = "serving"
    /\ garmin_client # NoClient
    /\ parked # Idle
    /\ Answered
    /\ req.status = 500
    /\ req.calls # <<>>

----------------------------------------------------------------------------
\* The gauges the i-th fetch of a scrape feeds.
FetchGauges(i) ==
    CASE i = 1 -> {"garmin_steps_today", "garmin_calories_today",
                   "garmin_active_calories_today", "garmin_distance_meters",
                   "garmin_heart_rate_resting", "garmin_heart_rate_min",
                   "garmin_heart_rate_max", "garmin_stress_avg", "garmin_stress_max",
                   "garmin_floors_climbed", "garmin_intensity_minutes"}
      [] i = 2 -> {"garmin_body_battery_current", "garmin_body_battery_charged",
                   "garmin_body_battery_drained"}
      [] i = 3 -> {"garmin_sleep_seconds", "garmin_sleep_score"}
      [] i = 4 -> {"garmin_spo2_avg"}
      [] i = 5 -> {"garmin_respiration_avg"}
      [] OTHER -> {"garmin_weight_kg", "garmin_bmi", "garmin_body_fat_percentage"}

\* C13: scrapes retain no state between one another: in the payload of a
\* scrape, a gauge whose fetch failed in that scrape does not report a value an
\* earlier scrape set; it reports the value of a gauge never set, 0.
C13_NoRetainedState ==
    (/\ Answered
     /\ req.path = "/metrics"
     /\ req.status = 200
     /\ req.client # NoClient)
    => \A i \in DOMAIN req.calls :
          ~req.calls[i].out.ok =>
             \A name \in FetchGauges(i) : <<name, 0>> \in req.body

====
